---- MODULE Spec2Model ----
(***************************************************************************)
(* A model of the pipes of ngx-pure-pipes (SumPipe, MeanPipe, MinPipe,     *)
(* MaxPipe, GroupByPipe, TemplatePipe).  Every pipe is a pure function of  *)
(* its arguments; a state of the machine below is one call of one pipe,    *)
(* with its arguments, before or after it has returned its result.         *)
(*                                                                         *)
(* JavaScript values are tagged records.  Primitives are P(t, n, s): the   *)
(* tag t, an integer payload n and a string payload s.  A plain object is  *)
(* Obj(id, a, b): id is its reference identity, a and b its two own        *)
(* properties.  An array is Arr(items).                                    *)
(***************************************************************************)
EXTENDS Integers, Sequences, FiniteSets, TLC

(* ------------------------------ bounds --------------------------------- *)
MaxLen == 3        \* longest array of arbitrary elements
MaxNum == 1        \* numeric property values are 0..MaxNum, and NaN
MaxTally == 7      \* longest array of the tally family (see TallyArrays)
MaxSegs == 3       \* most pieces a template is made of (see TemplateChunks)
MaxOtherLen == 2   \* longest array passed along with a getter of another type
MaxRepeatLen == 2  \* longest array of a call that is repeated on the instance
MaxWhole == 3      \* largest magnitude of a number that is rounded
MaxPrecision == 2  \* largest precision asked for

(* --------------------------- JavaScript values ------------------------- *)
P(t, n, s) == [t |-> t, n |-> n, s |-> s]
Num(n) == P("number", n, "")
NaN == P("NaN", 0, "")
Undefined == P("undefined", 0, "")
Null == P("null", 0, "")
Bool(b) == P("boolean", IF b THEN 1 ELSE 0, "")
Str(s) == P("string", 0, s)
Fn(name) == P("function", 0, name)
Obj(id, a, b) == [t |-> "object", id |-> id, a |-> a, b |-> b]
Arr(items) == [t |-> "array", items |-> items]
TypeError == P("TypeError", 0, "")


(* ------------------------------- inputs -------------------------------- *)
\* numeric values an element or a property can hold (typeof x === 'number')
JSNums == {Num(n) : n \in 0..MaxNum} \cup {NaN}

\* arrays of numbers: [1, 0, NaN]
PrimArrays ==
  UNION {[1..k -> JSNums] : k \in 0..MaxLen}

\* what a numeric property of an object holds
PropNums == {Num(0), Num(1), NaN}

\* arrays of distinct objects {a: .., b: ..}; the object at index i has identity i
RECURSIVE ObjArraysOfLen(_)
ObjArraysOfLen(k) ==
  IF k = 0 THEN {<<>>}
  ELSE {Append(s, Obj(k, a, b)) : s \in ObjArraysOfLen(k - 1), a \in PropNums, b \in PropNums}

ObjArrays == {SubSeq(s, 1, k) : s \in ObjArraysOfLen(MaxLen), k \in 0..MaxLen}

\* longer arrays of a few whole numbers, as in a tally: [4, 4, 5, 4, ...]
TallyValues == {Num(4), Num(5)}
TallyArrays ==
  UNION {[1..k -> TallyValues] : k \in (MaxLen + 1)..MaxTally}

Collections == {Arr(s) : s \in PrimArrays \cup ObjArrays \cup TallyArrays}

\* what a template can pass that is not an array
NonArrays == {Null, Undefined, Str("not-an-array"), Num(123), Obj(0, Num(0), Num(0))}

\* the getter argument: omitted, a property name, or a function of the item
PropNames == {"a", "b"}
FnNames == {"a_plus_b"}
Getters == {Undefined} \cup {Str(k) : k \in PropNames} \cup {Fn(f) : f \in FnNames}

\* a getter outside the declared type: null, an object
OtherGetters == {Null, Obj(0, Undefined, Undefined)}

\* grouping-key values: strings, a boolean, numbers, undefined, null, and
\* strings that are also the names of properties of Object.prototype
KeyVals == {Str("x"), Str("true"), Bool(TRUE), Num(1), Str("1"), Undefined, Null,
            Str("constructor")}
TagVals == {Str("p"), Str("q")}

\* arrays of distinct objects {a: <key>, b: <tag>}
RECURSIVE KeyedArraysOfLen(_)
KeyedArraysOfLen(k) ==
  IF k = 0 THEN {<<>>}
  ELSE {Append(s, Obj(k, a, b)) : s \in KeyedArraysOfLen(k - 1), a \in KeyVals, b \in TagVals}

KeyedArrays == {SubSeq(s, 1, k) : s \in KeyedArraysOfLen(MaxLen), k \in 0..MaxLen}

KeyedCollections == {Arr(s) : s \in KeyedArrays}

\* the groupKey argument: a property name, or (outside its declared type) a
\* function of the item
GroupFnNames == {"get_b"}
GroupKeys == {Str(k) : k \in PropNames} \cup {Fn(f) : f \in GroupFnNames}

(* ------------------------- JavaScript operators ------------------------ *)
\* Array.isArray(value)
IsArray(v) == v.t = "array"

\* typeof x === 'function'
IsFunction(g) == g.t = "function"

\* String(x)
JsToString(x) ==
  CASE x.t = "number" -> ToString(x.n)
    [] x.t = "NaN" -> "NaN"
    [] x.t = "undefined" -> "undefined"
    [] x.t = "null" -> "null"
    [] x.t = "boolean" -> IF x.n = 1 THEN "true" ELSE "false"
    [] x.t = "string" -> x.s
    [] x.t = "function" -> x.s
    [] x.t = "object" -> "[object Object]"

\* Number(x); the only strings that reach it here are not numeric literals
JsToNumber(x) ==
  CASE x.t = "number" -> x
    [] x.t = "boolean" -> Num(x.n)
    [] x.t = "null" -> Num(0)
    [] OTHER -> NaN

\* v[name]: an own property of an object; a number has no property a or b
GetProp(v, name) ==
  IF v.t = "object"
    THEN CASE name = "a" -> v.a
           [] name = "b" -> v.b
           [] OTHER -> Undefined
    ELSE Undefined

\* x + y: string concatenation as soon as one side is a string or an object,
\* numeric addition otherwise
JsAdd(x, y) ==
  IF x.t \in {"string", "object"} \/ y.t \in {"string", "object"}
    THEN Str(JsToString(x) \o JsToString(y))
    ELSE LET nx == JsToNumber(x)
             ny == JsToNumber(y)
         IN IF nx.t = "NaN" \/ ny.t = "NaN" THEN NaN ELSE Num(nx.n + ny.n)

\* x >= y: two objects compare as the equal strings "[object Object]";
\* otherwise both sides are converted to numbers and NaN compares false
JsGe(x, y) ==
  IF x.t = "object" /\ y.t = "object" THEN TRUE
  ELSE LET nx == JsToNumber(x)
           ny == JsToNumber(y)
       IN nx.t = "number" /\ ny.t = "number" /\ nx.n >= ny.n

\* x <= y
JsLe(x, y) ==
  IF x.t = "object" /\ y.t = "object" THEN TRUE
  ELSE LET nx == JsToNumber(x)
           ny == JsToNumber(y)
       IN nx.t = "number" /\ ny.t = "number" /\ nx.n <= ny.n

\* the functions a caller passes: item => item.a + item.b, item => item.b
ApplyFn(g, item) ==
  CASE g.s = "a_plus_b" -> JsAdd(GetProp(item, "a"), GetProp(item, "b"))
    [] g.s = "get_b" -> GetProp(item, "b")

(* ----------------------- IEEE-754 double arithmetic --------------------- *)
\* A finite double is Dbl(sign, exp, mant): the value is
\* sign * (mant / 2^52) * 2^exp, where mant is the 53-bit significand
\* (2^52 <= mant < 2^53, or 0 for zero) kept as three limbs <<h, m, l>>,
\* mant = h * 2^36 + m * 2^18 + l, with h of 17 bits and m, l of 18 bits.
\* The integers met here are far below 2^53, so sums of them are exact and
\* only division and multiplication round (to nearest, ties to even).
LimbBase == 262144           \* 2^18
TopLimbMin == 65536          \* 2^16: the leading bit of a normal significand
Dbl(sign, exp, mant) == [t |-> "double", sign |-> sign, exp |-> exp, mant |-> mant]
DblZero == Dbl(1, 0, <<0, 0, 0>>)

\* scale num/den by powers of two into [1, 2)
RECURSIVE Normalize(_, _, _)
Normalize(num, den, e) ==
  IF num >= 2 * den THEN Normalize(num, 2 * den, e + 1)
  ELSE IF num < den THEN Normalize(2 * num, den, e - 1)
  ELSE <<num, den, e>>

\* the significand plus one unit in the last place when up holds; a carry
\* out of the top limb renormalizes to 1.0 * 2^(exp + 1)
RoundMant(sign, exp, mant, up) ==
  IF ~up THEN Dbl(sign, exp, mant)
  ELSE LET l == mant[3] + 1
           m == mant[2] + (IF l = LimbBase THEN 1 ELSE 0)
           h == mant[1] + (IF m = LimbBase THEN 1 ELSE 0)
       IN IF h = 2 * TopLimbMin
            THEN Dbl(sign, exp + 1, <<TopLimbMin, 0, 0>>)
            ELSE Dbl(sign, exp, <<h, m % LimbBase, l % LimbBase>>)

\* the double nearest to a / n, for integers a and n > 0: long division,
\* one limb at a time, then rounding on the remainder
FDiv(a, n) ==
  IF a = 0 THEN DblZero
  ELSE LET sign == IF a < 0 THEN -1 ELSE 1
           mag == IF a < 0 THEN -a ELSE a
           nrm == Normalize(mag, n, 0)
           num == nrm[1]
           den == nrm[2]
           h == (num * TopLimbMin) \div den
           r1 == (num * TopLimbMin) % den
           m == (r1 * LimbBase) \div den
           r2 == (r1 * LimbBase) % den
           l == (r2 * LimbBase) \div den
           r3 == (r2 * LimbBase) % den
           up == 2 * r3 > den \/ (2 * r3 = den /\ l % 2 = 1)
       IN RoundMant(sign, nrm[3], <<h, m, l>>, up)

\* x / y with y a positive integer (an array length)
JsDiv(x, y) ==
  LET nx == JsToNumber(x)
  IN IF nx.t = "NaN" THEN NaN ELSE FDiv(nx.n, y.n)

\* the number of bits by which top exceeds the 17 bits of a top limb
RECURSIVE ExcessBits(_)
ExcessBits(top) == IF top < 2 * TopLimbMin THEN 0 ELSE 1 + ExcessBits(top \div 2)

\* the double nearest to d * n, for a double d and an integer n > 0: the
\* exact product, shifted back to 53 bits and rounded on the bits shifted out
FMul(d, n) ==
  IF d = DblZero THEN DblZero
  ELSE LET pl == d.mant[3] * n
           pm == d.mant[2] * n + pl \div LimbBase
           ph == d.mant[1] * n + pm \div LimbBase
           k == ExcessBits(ph)
           out == 2 ^ k
           back == LimbBase \div out
           lost == (pl % LimbBase) % out
           l == (pl % LimbBase) \div out + ((pm % LimbBase) % out) * back
           m == (pm % LimbBase) \div out + (ph % out) * back
           h == ph \div out
           up == 2 * lost > out \/ (2 * lost = out /\ l % 2 = 1)
       IN RoundMant(d.sign, d.exp + k, <<h, m, l>>, up)

\* x * y with y a positive integer
JsMul(x, y) ==
  CASE x.t = "double" -> FMul(x, y.n)
    [] x.t = "number" -> FMul(FDiv(x.n, 1), y.n)
    [] OTHER -> NaN

\* x == y between numbers: NaN equals nothing, a whole number equals the
\* double that represents it
JsNumEq(x, y) ==
  LET dx == IF x.t = "number" THEN FDiv(x.n, 1) ELSE x
      dy == IF y.t = "number" THEN FDiv(y.n, 1) ELSE y
  IN dx.t = "double" /\ dy.t = "double" /\ dx = dy

(* ---------------------------- the aggregates --------------------------- *)
\* SumPipe: const get = (v) => ...
\* variant: the function mode is missing, a function is used as a property name
SumPipe_get_noFunctionMode(getter, v) ==
  IF getter = Undefined THEN v
  ELSE GetProp(v, JsToString(getter))

\* variant: a getter that is neither a function nor a string is ignored
SumPipe_get_ignoresOthers(getter, v) ==
  IF IsFunction(getter) THEN ApplyFn(getter, v)
  ELSE IF getter.t # "string" THEN v
  ELSE GetProp(v, JsToString(getter))

SumPipe_get(getter, v) ==
  IF IsFunction(getter) THEN ApplyFn(getter, v)
  ELSE IF getter = Undefined THEN v
  ELSE GetProp(v, JsToString(getter))

\* value.reduce((acc, item) => acc + get(item), acc) over items[i..]
RECURSIVE SumPipe_reduce(_, _, _, _)
SumPipe_reduce(getter, acc, items, i) ==
  IF i > Len(items) THEN acc
  ELSE SumPipe_reduce(getter, JsAdd(acc, SumPipe_get(getter, items[i])), items, i + 1)

\* variant: an empty array is rejected like an invalid input
SumPipe_transform_nullOnEmpty(value, getter) ==
  IF ~IsArray(value) \/ Len(value.items) = 0 THEN Null
  ELSE SumPipe_reduce(getter, Num(0), value.items, 1)

SumPipe_transform(value, getter) ==
  IF ~IsArray(value) THEN Null
  ELSE SumPipe_reduce(getter, Num(0), value.items, 1)

\* MeanPipe: const get = (v) => ...
MeanPipe_get(getter, v) ==
  IF IsFunction(getter) THEN ApplyFn(getter, v)
  ELSE IF getter = Undefined THEN v
  ELSE GetProp(v, JsToString(getter))

\* value.reduce((acc, item) => acc + get(item), acc) over items[i..]
RECURSIVE MeanPipe_reduce(_, _, _, _)
MeanPipe_reduce(getter, acc, items, i) ==
  IF i > Len(items) THEN acc
  ELSE MeanPipe_reduce(getter, JsAdd(acc, MeanPipe_get(getter, items[i])), items, i + 1)

\* variant: an empty array yields 0, as in SumPipe
MeanPipe_transform_zeroOnEmpty(value, getter) ==
  IF ~IsArray(value) THEN Null
  ELSE IF Len(value.items) = 0 THEN Num(0)
  ELSE JsDiv(MeanPipe_reduce(getter, Num(0), value.items, 1), Num(Len(value.items)))

\* variant: the total is divided by one more than the number of elements
MeanPipe_transform_offByOne(value, getter) ==
  IF ~IsArray(value) \/ Len(value.items) = 0 THEN Null
  ELSE JsDiv(MeanPipe_reduce(getter, Num(0), value.items, 1), Num(Len(value.items) + 1))

MeanPipe_transform(value, getter) ==
  IF ~IsArray(value) \/ Len(value.items) = 0 THEN Null
  ELSE LET total == MeanPipe_reduce(getter, Num(0), value.items, 1)
       IN JsDiv(total, Num(Len(value.items)))

\* MaxPipe: const get = (v) => ...
\* variant: what a property holds is converted to a number
MaxPipe_get_toNumber(getter, v) ==
  IF IsFunction(getter) THEN ApplyFn(getter, v)
  ELSE IF getter = Undefined THEN v
  ELSE JsToNumber(GetProp(v, JsToString(getter)))

MaxPipe_get(getter, v) ==
  IF IsFunction(getter) THEN ApplyFn(getter, v)
  ELSE IF getter = Undefined THEN v
  ELSE GetProp(v, JsToString(getter))

\* variant: the last of several equal maxima wins
MaxPipe_pick_lastWins(getter, a, b) ==
  IF JsGe(MaxPipe_get(getter, b), MaxPipe_get(getter, a)) THEN b ELSE a

\* the reducer (a, b) => (get(a) >= get(b) ? a : b)
MaxPipe_pick(getter, a, b) ==
  IF JsGe(MaxPipe_get(getter, a), MaxPipe_get(getter, b)) THEN a ELSE b

\* value.reduce(pick) over items[i..], a the accumulator so far
RECURSIVE MaxPipe_reduce(_, _, _, _)
MaxPipe_reduce(getter, a, items, i) ==
  IF i > Len(items) THEN a
  ELSE MaxPipe_reduce(getter, MaxPipe_pick(getter, a, items[i]), items, i + 1)

\* variant: the length check is missing, so reduce without an initial value
\* throws on an empty array
MaxPipe_transform_noEmptyCheck(value, getter) ==
  IF ~IsArray(value) THEN Null
  ELSE IF Len(value.items) = 0 THEN TypeError
  ELSE MaxPipe_reduce(getter, value.items[1], value.items, 2)

MaxPipe_transform(value, getter) ==
  IF ~IsArray(value) \/ Len(value.items) = 0 THEN Null
  ELSE MaxPipe_reduce(getter, value.items[1], value.items, 2)

\* MinPipe: const get = (v) => ...
\* variant: MinPipe has no function mode
MinPipe_get_noFunctionMode(getter, v) ==
  IF getter = Undefined THEN v
  ELSE GetProp(v, JsToString(getter))

MinPipe_get(getter, v) ==
  IF IsFunction(getter) THEN ApplyFn(getter, v)
  ELSE IF getter = Undefined THEN v
  ELSE GetProp(v, JsToString(getter))

\* variant: the last of several equal minima wins
MinPipe_pick_lastWins(getter, a, b) ==
  IF JsLe(MinPipe_get(getter, b), MinPipe_get(getter, a)) THEN b ELSE a

\* the reducer (a, b) => (get(a) <= get(b) ? a : b)
MinPipe_pick(getter, a, b) ==
  IF JsLe(MinPipe_get(getter, a), MinPipe_get(getter, b)) THEN a ELSE b

\* value.reduce(pick) over items[i..], a the accumulator so far
RECURSIVE MinPipe_reduce(_, _, _, _)
MinPipe_reduce(getter, a, items, i) ==
  IF i > Len(items) THEN a
  ELSE MinPipe_reduce(getter, MinPipe_pick(getter, a, items[i]), items, i + 1)

MinPipe_transform(value, getter) ==
  IF ~IsArray(value) \/ Len(value.items) = 0 THEN Null
  ELSE MinPipe_reduce(getter, value.items[1], value.items, 2)

(* -------------------------------- groupBy ------------------------------ *)
\* the property names every object literal inherits from Object.prototype
ObjectPrototypeProps ==
  {"constructor", "toString", "toLocaleString", "valueOf", "hasOwnProperty",
   "isPrototypeOf", "propertyIsEnumerable", "__proto__", "__defineGetter__",
   "__defineSetter__", "__lookupGetter__", "__lookupSetter__"}

Map(m) == [t |-> "map", m |-> m]

\* groups[key]: an own property, else what Object.prototype holds under that
\* name (a function or an object), else undefined
GroupsLookup(groups, name) ==
  IF name \in DOMAIN groups.m THEN Arr(groups.m[name])
  ELSE IF name \in ObjectPrototypeProps THEN Fn(name)
  ELSE Undefined

\* variant: a function groupKey is called with the item
GroupByPipe_step_callsFunction(groups, item, groupKey) ==
  IF groups = TypeError THEN TypeError
  ELSE LET key == IF IsFunction(groupKey) THEN ApplyFn(groupKey, item)
                  ELSE GetProp(item, JsToString(groupKey))
           name == JsToString(key)
           found == GroupsLookup(groups, name)
       IN IF found = Undefined
            THEN Map([k \in DOMAIN groups.m \cup {name} |->
                        IF k = name THEN <<item>> ELSE groups.m[k]])
          ELSE IF found.t = "array"
            THEN Map([k \in DOMAIN groups.m \cup {name} |->
                        IF k = name THEN Append(found.items, item) ELSE groups.m[k]])
          ELSE TypeError

\* the reducer of GroupByPipe.transform; a TypeError thrown by the spread of
\* a value that is not iterable ends the call
\* variant: a new item is put in front of its group
GroupByPipe_step_prepend(groups, item, groupKey) ==
  IF groups = TypeError THEN TypeError
  ELSE LET key == GetProp(item, JsToString(groupKey))
           name == JsToString(key)
           found == GroupsLookup(groups, name)
       IN IF found = Undefined
            THEN Map([k \in DOMAIN groups.m \cup {name} |->
                        IF k = name THEN <<item>> ELSE groups.m[k]])
          ELSE IF found.t = "array"
            THEN Map([k \in DOMAIN groups.m \cup {name} |->
                        IF k = name THEN <<item>> \o found.items ELSE groups.m[k]])
          ELSE TypeError

GroupByPipe_step(groups, item, groupKey) ==
  IF groups = TypeError THEN TypeError
  ELSE LET key == GetProp(item, JsToString(groupKey))
           name == JsToString(key)
           found == GroupsLookup(groups, name)
       IN IF found = Undefined
            THEN Map([k \in DOMAIN groups.m \cup {name} |->
                        IF k = name THEN <<item>> ELSE groups.m[k]])
          ELSE IF found.t = "array"
            THEN Map([k \in DOMAIN groups.m \cup {name} |->
                        IF k = name THEN Append(found.items, item) ELSE groups.m[k]])
          ELSE TypeError

\* value.reduce(step, groups) over items[i..]
RECURSIVE GroupByPipe_reduce(_, _, _, _)
GroupByPipe_reduce(groupKey, groups, items, i) ==
  IF i > Len(items) THEN groups
  ELSE GroupByPipe_reduce(groupKey, GroupByPipe_step(groups, items[i], groupKey), items, i + 1)

\* variant: an empty array is rejected like an invalid input
GroupByPipe_transform_nullOnEmpty(value, groupKey) ==
  IF ~IsArray(value) \/ Len(value.items) = 0 THEN Null
  ELSE GroupByPipe_reduce(groupKey, Map(<<>>), value.items, 1)

GroupByPipe_transform(value, groupKey) ==
  IF ~IsArray(value) THEN Null
  ELSE GroupByPipe_reduce(groupKey, Map(<<>>), value.items, 1)

\* The array object that holds a group of the result: [item] and
\* [...groups[key], item] are array literals, each a new object ("new"), never
\* the array the caller passed ("value").
\* variant: a group that holds every item of the input is the input array
GroupByPipe_currentGroup_reusesInput(value, items) ==
  IF items = value.items THEN "value" ELSE "new"

GroupByPipe_currentGroup(value, items) == "new"

(* ------------------------------ TemplatePipe --------------------------- *)
\* A string is a sequence of symbols: a symbol is a delimiter character or a
\* run of characters that holds no delimiter.
Text(syms) == [t |-> "text", syms |-> syms]

\* the pieces templates are made of: placeholders in the default syntax and
\* in a custom one, lone braces, plain text
TemplateChunks ==
  {<<"{", "{", "name", "}", "}">>, <<"{", "{", "unknown", "}", "}">>,
   <<"{", "{", "constructor", "}", "}">>, <<"<", "name", ">">>,
   <<"{">>, <<"}">>, <<"Hello ">>}

RECURSIVE Concat(_)
Concat(chunks) == IF chunks = <<>> THEN <<>> ELSE Head(chunks) \o Concat(Tail(chunks))

TemplateStrings ==
  {Text(Concat(c)) : c \in UNION {[1..n -> TemplateChunks] : n \in 0..MaxSegs}}
Templates == TemplateStrings \cup {Null, Undefined}

\* the variables argument: an object literal with or without the property
\* "name", or null
VarValues == {Null, Undefined, Num(0), Bool(FALSE), Str(""), Str("World")}

\* { name: '{{unknown}}', unknown: 'x' }: a value that holds a placeholder
NestedVariables ==
  Map([k \in {"name", "unknown"} |->
         IF k = "name" THEN Text(<<"{", "{", "unknown", "}", "}">>) ELSE Str("x")])

VariableMaps ==
  {Map(<<>>), Null, NestedVariables} \cup {Map([k \in {"name"} |-> v]) : v \in VarValues}

RECURSIVE Join(_)
Join(syms) == IF syms = <<>> THEN "" ELSE Head(syms) \o Join(Tail(syms))

isNil(v) == v = Null \/ v = Undefined

\* a regular expression OPEN(.+?)CLOSE, with or without the g flag
RegExp(open, close, global) ==
  [t |-> "regexp", open |-> open, close |-> close, global |-> global]

isRegExp(v) == v.t = "regexp"

\* /\{\{(.+?)\}\}/g
DefaultRegex == RegExp(<<"{", "{">>, <<"}", "}">>, TRUE)

\* the regex argument: absent, not a RegExp, /<(.+?)>/g, /\{\{(.+?)\}\}/
Patterns ==
  {Undefined, Null, Str("not-a-regex"),
   RegExp(<<"<">>, <<">">>, TRUE), RegExp(<<"{", "{">>, <<"}", "}">>, FALSE)}

\* the symbols d stand in s from position i on
OccursAt(s, d, i) ==
  /\ i + Len(d) - 1 <= Len(s)
  /\ \A j \in 1..Len(d) : s[i + j - 1] = d[j]

\* the lengths of a captured group (.+) that let the regex match at i
KeyLens(s, re, i) ==
  {k \in 1..Len(s) : OccursAt(s, re.close, i + Len(re.open) + k)}

\* the length captured by (.+?) when the regex matches at i, 0 when it does
\* not match there: the lazy quantifier takes the shortest
MatchAt(s, re, i) ==
  IF ~OccursAt(s, re.open, i) THEN 0
  ELSE LET lens == KeyLens(s, re, i)
       IN IF lens = {} THEN 0
          ELSE CHOOSE k \in lens : \A j \in lens : k <= j

\* variables[key]: an own property, else what Object.prototype holds under
\* that name, else undefined; the read throws when variables is nil
VarLookup(variables, key) ==
  IF isNil(variables) THEN TypeError
  ELSE IF key \in DOMAIN variables.m THEN variables.m[key]
  ELSE IF key = "__proto__" THEN Obj(0, Undefined, Undefined)
  ELSE IF key \in ObjectPrototypeProps THEN Fn(key)
  ELSE Undefined

\* String(v) as symbols; a built-in function prints as
\* "function Object() { [native code] }"
StringOf(v) ==
  IF v.t = "text" THEN v.syms
  ELSE IF v.t = "function" /\ v.s \in ObjectPrototypeProps
  THEN <<"function " \o (IF v.s = "constructor" THEN "Object" ELSE v.s) \o "() ",
         "{", " [native code] ", "}">>
  ELSE IF JsToString(v) = "" THEN <<>>
  ELSE <<JsToString(v)>>

\* variant: a falsy value counts as missing (|| in place of ??)
TemplatePipe_callback_falsyIsMissing(variables, match, key) ==
  LET v == VarLookup(variables, key)
  IN IF v = TypeError THEN TypeError
     ELSE IF isNil(v) \/ v \in {Num(0), Bool(FALSE), Str(""), NaN} THEN Text(match)
     ELSE Text(StringOf(v))

\* (match, key) => String(variables[key] ?? match)
TemplatePipe_callback(variables, match, key) ==
  LET v == VarLookup(variables, key)
  IN IF v = TypeError THEN TypeError
     ELSE IF isNil(v) THEN Text(match)
     ELSE Text(StringOf(v))

\* template.replace(regex, callback) from position i on; replaced tells that
\* a match was already replaced, after which a regex without the g flag
\* copies the rest
RECURSIVE TemplatePipe_replace(_, _, _, _, _)
TemplatePipe_replace(s, re, variables, i, replaced) ==
  IF i > Len(s) THEN Text(<<>>)
  ELSE IF replaced /\ ~re.global THEN Text(SubSeq(s, i, Len(s)))
  ELSE LET k == MatchAt(s, re, i)
       IN IF k = 0
          THEN LET rest == TemplatePipe_replace(s, re, variables, i + 1, replaced)
               IN IF rest = TypeError THEN TypeError
                  ELSE Text(<<s[i]>> \o rest.syms)
          ELSE LET n == Len(re.open) + k + Len(re.close)
                   match == SubSeq(s, i, i + n - 1)
                   key == Join(SubSeq(s, i + Len(re.open), i + Len(re.open) + k - 1))
                   sub == TemplatePipe_callback(variables, match, key)
                   rest == IF sub = TypeError THEN TypeError
                           ELSE TemplatePipe_replace(s, re, variables, i + n, TRUE)
               IN IF rest = TypeError THEN TypeError
                  ELSE Text(sub.syms \o rest.syms)

\* variant: a nil template gives the empty string
TemplatePipe_transform_emptyOnNil(template, variables, regex) ==
  IF isNil(template) THEN Text(<<>>)
  ELSE TemplatePipe_replace(template.syms,
                            IF ~isRegExp(regex) THEN DefaultRegex ELSE regex,
                            variables, 1, FALSE)

\* variant: only an absent pattern is replaced by the default; any other
\* value that is not a RegExp is searched for as a literal, which occurs in
\* no template
TemplatePipe_transform_defaultOnlyIfAbsent(template, variables, regex) ==
  IF isNil(template) THEN Null
  ELSE IF regex # Undefined /\ ~isRegExp(regex) THEN template
  ELSE TemplatePipe_replace(template.syms,
                            IF ~isRegExp(regex) THEN DefaultRegex ELSE regex,
                            variables, 1, FALSE)

\* variant: the output is run through the replacement once more
TemplatePipe_transform_expandsAgain(template, variables, regex) ==
  IF isNil(template) THEN Null
  ELSE LET re == IF ~isRegExp(regex) THEN DefaultRegex ELSE regex
           r == TemplatePipe_replace(template.syms, re, variables, 1, FALSE)
       IN IF r = TypeError THEN r
          ELSE TemplatePipe_replace(r.syms, re, variables, 1, FALSE)

\* variant: braces left over in the output are removed
TemplatePipe_transform_stripsBraces(template, variables, regex) ==
  IF isNil(template) THEN Null
  ELSE LET r == TemplatePipe_replace(template.syms,
                                     IF ~isRegExp(regex) THEN DefaultRegex ELSE regex,
                                     variables, 1, FALSE)
       IN IF r = TypeError THEN r
          ELSE Text(SelectSeq(r.syms, LAMBDA x : x \notin {"{", "}"}))

TemplatePipe_transform(template, variables, regex) ==
  IF isNil(template) THEN Null
  ELSE TemplatePipe_replace(template.syms,
                            IF ~isRegExp(regex) THEN DefaultRegex ELSE regex,
                            variables, 1, FALSE)

(* ------------------------------- RoundPipe ----------------------------- *)
\* Infinity and -Infinity, and the zero with the sign bit set
Infinity(sign) == P("infinity", sign, "")
NegZero == Dbl(-1, 0, <<0, 0, 0>>)
IsZero(d) == d.t = "double" /\ d.mant = <<0, 0, 0>>

\* Number.EPSILON = 2^-52
Epsilon == Dbl(1, -52, <<TopLimbMin, 0, 0>>)

\* a significand plus k, k < 2^18; the top limb may come out as 2^17
MantAdd(mant, k) ==
  LET l == mant[3] + k
      m == mant[2] + l \div LimbBase
  IN <<mant[1] + m \div LimbBase, m % LimbBase, l % LimbBase>>

\* a significand minus k, k < 2^18; the top limb may come out below 2^16
MantSub(mant, k) ==
  LET bl == IF mant[3] < k THEN 1 ELSE 0
      bm == IF mant[2] < bl THEN 1 ELSE 0
  IN <<mant[1] - bm, mant[2] + bm * LimbBase - bl, mant[3] + bl * LimbBase - k>>

\* a significand shifted by one bit
MantHalf(mant) ==
  <<mant[1] \div 2,
    mant[2] \div 2 + (mant[1] % 2) * (LimbBase \div 2),
    mant[3] \div 2 + (mant[2] % 2) * (LimbBase \div 2)>>

MantDouble(mant) ==
  <<2 * mant[1] + mant[2] \div (LimbBase \div 2),
    ((2 * mant[2]) % LimbBase) + mant[3] \div (LimbBase \div 2),
    (2 * mant[3]) % LimbBase>>

\* d + Number.EPSILON, for d = 0 or 2^-17 <= |d|, rounded to nearest, ties
\* to even.  A unit in the last place of d is 2^(d.exp - 52): from exponent
\* 2 on the sum is nearer to d than to its neighbours (for -4 the sum is
\* halfway to the neighbour below, whose significand is odd); at exponent 1
\* it lies halfway between d and a neighbour, except below -2 where the
\* spacing halves; from exponent 0 down epsilon is 2^(-d.exp) units.
AddEpsilon(d) ==
  IF d.t = "infinity" THEN d
  ELSE IF IsZero(d) THEN Epsilon
  ELSE IF d.exp >= 2 THEN d
  ELSE IF d.exp = 1 THEN
    IF d.sign = -1 /\ d.mant = <<TopLimbMin, 0, 0>>
      THEN Dbl(-1, 0, MantSub(MantDouble(d.mant), 1))
    ELSE IF d.mant[3] % 2 = 0 THEN d
    ELSE IF d.sign = 1 THEN RoundMant(1, 1, d.mant, TRUE)
    ELSE Dbl(-1, 1, MantSub(d.mant, 1))
  ELSE IF d.sign = 1 THEN
    LET sum == MantAdd(d.mant, 2 ^ (0 - d.exp))
    IN IF sum[1] < 2 * TopLimbMin THEN Dbl(1, d.exp, sum)
       ELSE RoundMant(1, d.exp + 1, MantHalf(sum),
                      sum[3] % 2 = 1 /\ MantHalf(sum)[3] % 2 = 1)
  ELSE
    LET diff == MantSub(d.mant, 2 ^ (0 - d.exp))
    IN IF diff[1] >= TopLimbMin THEN Dbl(-1, d.exp, diff)
       ELSE Dbl(-1, d.exp - 1, MantDouble(diff))

\* 10 ** precision for a whole precision >= 0
Pow10(precision) == 10 ^ precision

\* |d| split at the binary point, for |d| < 2^16: the whole part, and how the
\* fraction compares with one half (-1 below, 0 equal, 1 above)
WholeAndHalf(d) ==
  IF IsZero(d) \/ d.exp < -1 THEN [whole |-> 0, half |-> -1]
  ELSE IF d.exp = -1
    THEN [whole |-> 0, half |-> IF d.mant = <<TopLimbMin, 0, 0>> THEN 0 ELSE 1]
  ELSE LET unit == 2 ^ (16 - d.exp)
           frac == d.mant[1] % unit
           rest == d.mant[2] > 0 \/ d.mant[3] > 0
       IN [whole |-> d.mant[1] \div unit,
           half |-> IF 2 * frac > unit \/ (2 * frac = unit /\ rest) THEN 1
                    ELSE IF 2 * frac = unit THEN 0
                    ELSE -1]

\* Math.round(d) = floor(d + 0.5), exactly; it is -0 for -0.5 <= d <= -0.
\* The result is [n |-> the whole number, negZero |-> whether it is -0].
\* variant: a tie goes to the even neighbour
MathRound_tiesToEven(d) ==
  LET s == WholeAndHalf(d)
      mag == IF s.half = 1 \/ (s.half = 0 /\ s.whole % 2 = 1) THEN s.whole + 1 ELSE s.whole
  IN [n |-> d.sign * mag, negZero |-> d.sign = -1 /\ mag = 0]

\* variant: a tie goes away from zero
MathRound_halfAwayFromZero(d) ==
  LET s == WholeAndHalf(d)
      mag == IF s.half >= 0 THEN s.whole + 1 ELSE s.whole
  IN [n |-> d.sign * mag, negZero |-> d.sign = -1 /\ mag = 0]

MathRound(d) ==
  LET s == WholeAndHalf(d)
      mag == IF d.sign = 1
               THEN (IF s.half >= 0 THEN s.whole + 1 ELSE s.whole)
               ELSE (IF s.half = 1 THEN s.whole + 1 ELSE s.whole)
  IN [n |-> d.sign * mag, negZero |-> d.sign = -1 /\ mag = 0]

\* helpers.ts: isNumber
\* variant: NaN passes, as for typeof value === 'number' alone
isNumber_typeofOnly(value) == value.t \in {"number", "double", "infinity", "NaN"}

isNumber(value) == value.t \in {"number", "double", "infinity"}

\* helpers.ts: round; precision is undefined (the default 0) or a whole
\* number.  Infinity and NaN go through the arithmetic unchanged.
\* variant: a negative precision counts as its absolute value
round_absolutePrecision(value, precision) ==
  LET p == IF precision.t = "undefined" THEN 0
           ELSE IF precision.n < 0 THEN 0 - precision.n ELSE precision.n
      factor == Pow10(p)
      v == IF value.t = "number" THEN FDiv(value.n, 1) ELSE value
      scaled == FMul(AddEpsilon(v), factor)
      r == MathRound(scaled)
      res == IF r.n = 0 THEN (IF r.negZero THEN NegZero ELSE DblZero) ELSE FDiv(r.n, factor)
  IN IF v.t \in {"infinity", "NaN"} THEN v
     ELSE IF IsZero(res) THEN DblZero ELSE res

round(value, precision) ==
  LET p == IF precision.t = "undefined" THEN 0
           ELSE IF precision.n < 0 THEN 0 ELSE precision.n
      factor == Pow10(p)
      v == IF value.t = "number" THEN FDiv(value.n, 1) ELSE value
      scaled == FMul(AddEpsilon(v), factor)
      r == MathRound(scaled)
      res == IF r.n = 0 THEN (IF r.negZero THEN NegZero ELSE DblZero) ELSE FDiv(r.n, factor)
  IN IF v.t \in {"infinity", "NaN"} THEN v
     ELSE IF IsZero(res) THEN DblZero ELSE res

\* RoundPipe.transform
RoundPipe_transform(value, precision) ==
  IF ~isNumber(value) THEN Null
  ELSE round(value, precision)

(* --------------------------- the state machine ------------------------- *)
\* One state is one call pipe.transform(value, getter), or
\* pipe.transform(template, variables, regex) for the template pipe: pc is
\* "call" while the call is pending and "return" once result holds what it
\* returned; it is "pushed" once the caller has pushed an item to a group
\* that groupBy returned.  The caller may go on with the same pipe instance:
\* pc is "other" once a call with other arguments has returned and "again"
\* once the first call, repeated after it, has returned; first is the result
\* of the first call, which the caller keeps.  self is what the fields of
\* the pipe instance hold.
VARIABLES pipe, value, getter, precision, template, variables, regex, result, pc,
          self, first
vars == <<pipe, value, getter, precision, template, variables, regex, result, pc,
          self, first>>

AggregatePipes == {"sum", "mean", "max", "min"}
Inputs == Collections \cup NonArrays
GroupInputs == KeyedCollections \cup NonArrays
OtherInputs == {v \in Inputs : IsArray(v) => Len(v.items) <= MaxOtherLen}

\* numbers to round: the literals a/n for halves, quarters, eighths,
\* sixteenths, tenths and hundredths up to MaxWhole, both signs, and the
\* special values
Denominators == {1, 2, 4, 8, 16, 10, 100}
RoundNumbers ==
  UNION {{FDiv(a, n) : a \in (0 - MaxWhole * n)..(MaxWhole * n)} : n \in Denominators}
RoundSpecials == {NegZero, Infinity(1), Infinity(-1), NaN}
\* what is not a number: null, undefined, '42', true, {}, []
NonNumbers == {Null, Undefined, Str("42"), Bool(TRUE), Obj(0, Undefined, Undefined),
               Arr(<<>>)}
RoundInputs == RoundNumbers \cup RoundSpecials \cup NonNumbers
Precisions == {Undefined} \cup {Num(p) : p \in -2..MaxPrecision}

\* A call on an instance whose fields hold self, computing r from its
\* arguments: what the fields hold afterwards and what the call returns.  The
\* pipe classes declare no field and no transform method reads or writes
\* this.
\* variant: the instance keeps the first result and returns it ever after
PipeCall_memoizes(fields, r) ==
  IF fields = {} THEN [self |-> {r}, result |-> r]
  ELSE [self |-> fields, result |-> CHOOSE x \in fields : TRUE]

PipeCall(fields, r) == [self |-> fields, result |-> r]

Init ==
  /\ pc = "call"
  /\ result = Undefined
  /\ self = {}
  /\ first = Undefined
  /\ \/ /\ pipe \in AggregatePipes /\ value \in Inputs /\ getter \in Getters /\ precision = Undefined
        /\ template = Undefined /\ variables = Undefined /\ regex = Undefined
     \/ /\ pipe \in AggregatePipes /\ value \in OtherInputs /\ getter \in OtherGetters /\ precision = Undefined
        /\ template = Undefined /\ variables = Undefined /\ regex = Undefined
     \/ /\ pipe = "groupBy" /\ value \in GroupInputs /\ getter \in GroupKeys /\ precision = Undefined
        /\ template = Undefined /\ variables = Undefined /\ regex = Undefined
     \/ /\ pipe = "template" /\ value = Undefined /\ getter = Undefined /\ precision = Undefined
        /\ template \in Templates /\ variables \in VariableMaps
        /\ regex \in Patterns
     \/ /\ pipe = "round" /\ value \in RoundInputs /\ precision \in Precisions
        /\ getter = Undefined
        /\ template = Undefined /\ variables = Undefined /\ regex = Undefined

\* the call returns r; the arguments are left as they were
Return(name, r) ==
  /\ pc = "call"
  /\ pipe = name
  /\ pc' = "return"
  /\ LET call == PipeCall(self, r)
     IN result' = call.result /\ self' = call.self
  /\ UNCHANGED <<pipe, value, getter, precision, template, variables, regex, first>>

Sum == Return("sum", SumPipe_transform(value, getter))
Mean == Return("mean", MeanPipe_transform(value, getter))
Max == Return("max", MaxPipe_transform(value, getter))
Min == Return("min", MinPipe_transform(value, getter))
GroupBy == Return("groupBy", GroupByPipe_transform(value, getter))
Template == Return("template", TemplatePipe_transform(template, variables, regex))
Round == Return("round", RoundPipe_transform(value, precision))

\* the caller's groupA.push({...}) on a group of the result: the push writes
\* to the array object that holds the group
PushedItem == Obj(0, Str("x"), Str("p"))

Push ==
  /\ pc = "return"
  /\ pipe = "groupBy"
  /\ result.t = "map"
  /\ pc' = "pushed"
  /\ \E k \in DOMAIN result.m :
       /\ result' = Map([result.m EXCEPT ![k] = Append(@, PushedItem)])
       /\ value' = IF GroupByPipe_currentGroup(value, result.m[k]) = "value"
                   THEN Arr(Append(value.items, PushedItem))
                   ELSE value
  /\ UNCHANGED <<pipe, getter, precision, template, variables, regex, self, first>>

\* pipe.transform of the pipe at hand
Transform(v, g, p, t, vs, re) ==
  CASE pipe = "sum" -> SumPipe_transform(v, g)
    [] pipe = "mean" -> MeanPipe_transform(v, g)
    [] pipe = "max" -> MaxPipe_transform(v, g)
    [] pipe = "min" -> MinPipe_transform(v, g)
    [] pipe = "groupBy" -> GroupByPipe_transform(v, g)
    [] pipe = "template" -> TemplatePipe_transform(t, vs, re)
    [] pipe = "round" -> RoundPipe_transform(v, p)

\* the arguments of the call in between: another array, other variables
OtherValue == Arr(<<Num(1), Num(0)>>)
OtherVariables == Map([k \in {"name"} |-> Str("Universe")])

\* the calls that are followed up on the same instance: those on short
\* arrays and on what is not an array, with the regex argument omitted
IsRepeated ==
  /\ IsArray(value) => Len(value.items) <= MaxRepeatLen
  /\ regex = Undefined

\* result2 = pipe.transform(other arguments) on the same instance
OtherCall ==
  /\ pc = "return"
  /\ IsRepeated
  /\ pc' = "other"
  /\ first' = result
  /\ LET call == PipeCall(self, Transform(OtherValue, getter, precision, template,
                                           OtherVariables, regex))
     IN result' = call.result /\ self' = call.self
  /\ UNCHANGED <<pipe, value, getter, precision, template, variables, regex>>

\* result3 = pipe.transform(the first arguments) on the same instance
RepeatCall ==
  /\ pc = "other"
  /\ pc' = "again"
  /\ LET call == PipeCall(self, Transform(value, getter, precision, template, variables,
                                           regex))
     IN result' = call.result /\ self' = call.self
  /\ UNCHANGED <<pipe, value, getter, precision, template, variables, regex, first>>

Next ==
  Sum \/ Mean \/ Max \/ Min \/ GroupBy \/ Template \/ Round \/ Push \/ OtherCall
    \/ RepeatCall

Spec == Init /\ [][Next]_vars

(* ------------------------------ properties ----------------------------- *)
Returned(name) == pc = "return" /\ pipe = name

IsEmptyArray(v) == IsArray(v) /\ Len(v.items) = 0
IsNonEmptyArray(v) == IsArray(v) /\ Len(v.items) > 0

\* the value the contract says is aggregated for an item: fn(item), the
\* item itself, or item[name]
Extracted(item, g) ==
  IF g.t = "function" THEN ApplyFn(g, item)
  ELSE IF g.t = "undefined" THEN item
  ELSE GetProp(item, JsToString(g))

Indices(v) == 1..Len(v.items)
ExtractedAt(i) == Extracted(value.items[i], getter)

\* every extracted value is a number proper (not NaN, not a string, ...)
AllNumeric == \A i \in Indices(value) : ExtractedAt(i).t = "number"
\* every extracted value has type number, NaN included
AllOfTypeNumber == \A i \in Indices(value) : ExtractedAt(i).t \in {"number", "NaN"}

Lowest(S) == CHOOSE i \in S : \A j \in S : i <= j

\* C1: SumPipe.transform returns 0 for an empty array and null for null,
\* undefined and every other non-array, whatever the selector; the two
\* results differ.
C1_SumEmptyZeroInvalidNull ==
  Returned("sum") =>
    /\ IsEmptyArray(value) => result = Num(0) /\ result # Null
    /\ ~IsArray(value) => result = Null /\ result # Num(0)

C1_Witness ==
  Returned("sum") /\ IsEmptyArray(value) /\ getter = Str("a") /\ result = Num(0)

\* C2: MeanPipe.transform returns null for an empty array and for every
\* non-array, whatever the selector; it never returns 0 for an empty array.
C2_MeanEmptyAndInvalidNull ==
  Returned("mean") /\ (~IsArray(value) \/ IsEmptyArray(value)) => result = Null

C2_Witness ==
  Returned("mean") /\ IsEmptyArray(value) /\ getter = Undefined /\ result = Null

\* C3: MinPipe.transform and MaxPipe.transform return null (not 0, not a
\* thrown error) for an empty array and for every non-array, with no
\* selector, a property name or a function.
C3_MinMaxEmptyAndInvalidNull ==
  (Returned("max") \/ Returned("min")) /\ (~IsArray(value) \/ IsEmptyArray(value))
    => result = Null

C3_Witness ==
  Returned("max") /\ IsEmptyArray(value) /\ getter = Fn("a_plus_b") /\ result = Null

\* the indices whose extracted number is >= (<=) that of every other index
MaxIndices ==
  {i \in Indices(value) :
     \A j \in Indices(value) \ {i} : ExtractedAt(i).n >= ExtractedAt(j).n}
MinIndices ==
  {i \in Indices(value) :
     \A j \in Indices(value) \ {i} : ExtractedAt(i).n <= ExtractedAt(j).n}

\* C4: for a non-empty array whose extracted values are numbers, MaxPipe
\* returns the original element at the lowest index among those whose
\* extracted value is >= every other one (first occurrence wins on ties).
C4_MaxFirstOfMaxima ==
  Returned("max") /\ IsNonEmptyArray(value) /\ AllNumeric =>
    /\ MaxIndices # {}
    /\ result = value.items[Lowest(MaxIndices)]

C4_Witness ==
  /\ Returned("max") /\ IsNonEmptyArray(value) /\ AllNumeric
  /\ getter = Str("a")
  /\ MaxIndices = {2, 3}
  /\ result.t = "object" /\ result.id = 2

\* C5: for a non-empty array whose extracted values are numbers, MinPipe
\* returns the original element at the lowest index among those whose
\* extracted value is <= every other one (first occurrence wins on ties).
C5_MinFirstOfMinima ==
  Returned("min") /\ IsNonEmptyArray(value) /\ AllNumeric =>
    /\ MinIndices # {}
    /\ result = value.items[Lowest(MinIndices)]

C5_Witness ==
  /\ Returned("min") /\ IsNonEmptyArray(value) /\ AllNumeric
  /\ getter = Fn("a_plus_b")
  /\ MinIndices = {2, 3}
  /\ result.t = "object" /\ result.id = 2

\* the sum of the extracted numbers over a set of indices
RECURSIVE ArithmeticSum(_)
ArithmeticSum(S) ==
  IF S = {} THEN 0
  ELSE LET i == CHOOSE j \in S : TRUE
       IN ExtractedAt(i).n + ArithmeticSum(S \ {i})

\* C6: for an array whose extracted values have type number, SumPipe returns
\* their arithmetic sum (NaN as soon as one of them is NaN), in each of the
\* three selector modes.
C6_SumIsArithmeticSum ==
  Returned("sum") /\ IsArray(value) /\ AllOfTypeNumber =>
    result = IF AllNumeric THEN Num(ArithmeticSum(Indices(value))) ELSE NaN

C6_Witness ==
  /\ Returned("sum") /\ IsArray(value) /\ Len(value.items) = 3 /\ AllNumeric
  /\ getter = Fn("a_plus_b")
  /\ result = Num(4)

\* the doubles next to d, away from zero and towards zero
NextUp(d) == RoundMant(d.sign, d.exp, d.mant, TRUE)
WithinOneUlp(x, y) == x = y \/ x = NextUp(y) \/ y = NextUp(x)

LengthOf(v) == Num(Len(v.items))

\* C7 as stated: for a non-empty array with numeric extracted values the
\* mean is the sum divided by the length, and
\* SumPipe.transform(C, s) == MeanPipe.transform(C, s) * C.length.
C7_SumEqualsMeanTimesLength ==
  Returned("mean") /\ IsNonEmptyArray(value) /\ AllNumeric =>
    /\ result = JsDiv(Num(ArithmeticSum(Indices(value))), LengthOf(value))
    /\ JsNumEq(SumPipe_transform(value, getter), JsMul(result, LengthOf(value)))

\* C7 as amended: the mean is the double nearest to sum / length, and
\* mean * length is the sum or a double adjacent to it (equality within
\* floating-point tolerance, not exact equality).
C7_MeanIsSumOverLength ==
  Returned("mean") /\ IsNonEmptyArray(value) /\ AllNumeric =>
    /\ result = JsDiv(SumPipe_transform(value, getter), LengthOf(value))
    /\ result = JsDiv(Num(ArithmeticSum(Indices(value))), LengthOf(value))
    /\ WithinOneUlp(JsMul(result, LengthOf(value)),
                    JsMul(SumPipe_transform(value, getter), Num(1)))

C7_Witness ==
  /\ Returned("mean") /\ IsNonEmptyArray(value) /\ AllNumeric
  /\ Len(value.items) = 7 /\ ArithmeticSum(Indices(value)) = 29
  /\ result = FDiv(29, 7)
  /\ ~JsNumEq(Num(29), JsMul(result, Num(7)))

\* the name of the group of the item at index i: String(item[groupKey])
KeyStringAt(i) == JsToString(GetProp(value.items[i], getter.s))
ItemsWithKey(k) == {i \in Indices(value) : KeyStringAt(i) = k}

\* C8: GroupByPipe.transform returns a mapping whose keys are the string
\* forms of the distinct key values (true under "true", undefined under
\* "undefined", null under "null", 1 under "1") and whose value for a key
\* is the list of exactly the input elements having that key.
C8_GroupsByKeyString ==
  Returned("groupBy") /\ IsArray(value) =>
    /\ result.t = "map"
    /\ DOMAIN result.m = {KeyStringAt(i) : i \in Indices(value)}
    /\ \A k \in DOMAIN result.m :
         /\ {result.m[k][p] : p \in 1..Len(result.m[k])}
              = {value.items[i] : i \in ItemsWithKey(k)}
         /\ Len(result.m[k]) = Cardinality(ItemsWithKey(k))

\* C9: grouping is stable: within each returned group the elements are in
\* the same relative order as in the input array.
C9_GroupsKeepInputOrder ==
  Returned("groupBy") /\ IsArray(value) /\ result.t = "map" =>
    \A k \in DOMAIN result.m :
      LET g == result.m[k]
      IN /\ \A p \in 1..Len(g) : g[p] = value.items[g[p].id]
         /\ \A p, q \in 1..Len(g) : p < q => g[p].id < g[q].id

C9_Witness ==
  /\ Returned("groupBy") /\ IsArray(value) /\ result.t = "map"
  /\ getter = Str("a")
  /\ "true" \in DOMAIN result.m
  /\ Len(result.m["true"]) = 2
  /\ result.m["true"][1].id = 1 /\ result.m["true"][2].id = 3
  /\ result.m["true"][1].a = Bool(TRUE) /\ result.m["true"][2].a = Str("true")

\* C10: GroupByPipe.transform returns null for every input that is not an
\* array and the empty mapping {} (not null) for an empty array.
C10_GroupByInvalidNullEmptyMap ==
  Returned("groupBy") =>
    /\ ~IsArray(value) => result = Null
    /\ IsEmptyArray(value) => result = Map(<<>>) /\ result # Null

C10_Witness ==
  Returned("groupBy") /\ IsEmptyArray(value) /\ result = Map(<<>>)

PatternInUse == IF isRegExp(regex) THEN regex ELSE DefaultRegex

\* the text of a placeholder for a name in the syntax of a pattern
Placeholder(re, name) == re.open \o <<name>> \o re.close

\* pieces that hold no delimiter of the pattern's opening: no match starts
\* in them
PlainChunks(re) ==
  {c \in TemplateChunks : \A i \in 1..Len(c) : \A j \in 1..Len(re.open) : c[i] # re.open[j]}

\* the ways to read a string, from position i on, as pieces drawn from a set
RECURSIVE ReadingsFrom(_, _, _)
ReadingsFrom(s, i, chunks) ==
  IF i > Len(s) THEN {<<>>}
  ELSE UNION {{<<c>> \o r : r \in ReadingsFrom(s, i + Len(c), chunks)} :
                c \in {d \in chunks : OccursAt(s, d, i)}}

Readings(chunks) == ReadingsFrom(template.syms, 1, chunks)

HasOwn(name) == ~isNil(variables) /\ name \in DOMAIN variables.m

\* the i-th piece is a match the pattern replaces: every one with the g
\* flag, the first one without it
IsReplaced(c, i, ph) ==
  /\ c[i] = ph
  /\ PatternInUse.global \/ \A j \in 1..(i - 1) : c[j] # ph

TemplateNames == {"name", "unknown", "constructor"}
MissingNames == {n \in TemplateNames : ~HasOwn(n) \/ isNil(variables.m[n])}

\* C13 as stated: in a template made of plain text and placeholders of names
\* that are absent from the variables object or mapped to null or undefined,
\* every placeholder keeps its text, so that the template comes back as it
\* was.
C13_MissingPlaceholdersKept ==
  Returned("template") /\ template \in TemplateStrings /\ ~isNil(variables) =>
    LET phs == {Placeholder(PatternInUse, n) : n \in MissingNames}
    IN Readings(PlainChunks(PatternInUse) \cup phs) # {} => result = template

\* C14 as stated: in a template made of plain text and placeholders of a name
\* the variables object maps to a non-nil value, every occurrence of the
\* placeholder is replaced, whatever the pattern in use.
C14_AllOccurrencesReplaced ==
  Returned("template") /\ template \in TemplateStrings /\ HasOwn("name")
    /\ ~isNil(variables.m["name"]) =>
    LET ph == Placeholder(PatternInUse, "name")
    IN \A c \in Readings(PlainChunks(PatternInUse) \cup {ph}) :
         result = Text(Concat([i \in 1..Len(c) |->
                    IF c[i] = ph THEN StringOf(variables.m["name"]) ELSE c[i]]))

\* C15 as stated: with an empty variables object every template comes back
\* unchanged, and so does the result when the pipe is applied to it again.
C15_EmptyVariablesRoundTrip ==
  Returned("template") /\ template \in TemplateStrings /\ variables = Map(<<>>) =>
    /\ result = template
    /\ TemplatePipe_transform(result, variables, regex) = template

\* C16: a null or undefined template gives null, whatever the variables and
\* the pattern; the empty string is a valid template and gives the empty
\* string.
C16_NilTemplateNullEmptyKept ==
  Returned("template") =>
    /\ isNil(template) => result = Null
    /\ template = Text(<<>>) => result = Text(<<>>)

C16_Witness ==
  /\ Returned("template")
  /\ template = Undefined /\ variables = Null /\ regex = Str("not-a-regex")
  /\ result = Null

\* C17: a pattern argument that is absent, null or not a RegExp gives the
\* result of the call without a pattern argument, in which {{name}} is the
\* placeholder syntax.
C17_InvalidPatternFallsBack ==
  Returned("template") /\ ~isRegExp(regex) =>
    /\ result = TemplatePipe_transform(template, variables, Undefined)
    /\ /\ template = Text(Placeholder(DefaultRegex, "name"))
       /\ HasOwn("name") /\ ~isNil(variables.m["name"])
       => result = Text(StringOf(variables.m["name"]))

C17_Witness ==
  /\ Returned("template")
  /\ regex = Str("not-a-regex")
  /\ template = Text(<<"Hello ", "{", "{", "name", "}", "}">>)
  /\ HasOwn("name") /\ variables.m["name"] = Str("World")
  /\ result = Text(<<"Hello ", "World">>)

(* ------------------------- selector properties ------------------------- *)
\* C18: the extractor of the aggregate that was called returns fn(item) for
\* a function selector, the item itself for an absent selector and
\* item[selector] for any other selector, as it is: not converted to a
\* number, NaN and undefined included.  The sum of a one-element array is
\* 0 + that value.
C18_ExtractorDispatch ==
  pc = "return" /\ pipe \in AggregatePipes /\ IsArray(value) =>
    /\ \A i \in Indices(value) :
         /\ pipe = "sum" => SumPipe_get(getter, value.items[i]) = ExtractedAt(i)
         /\ pipe = "mean" => MeanPipe_get(getter, value.items[i]) = ExtractedAt(i)
         /\ pipe = "max" => MaxPipe_get(getter, value.items[i]) = ExtractedAt(i)
         /\ pipe = "min" => MinPipe_get(getter, value.items[i]) = ExtractedAt(i)
    /\ pipe = "sum" /\ Len(value.items) = 1 => result = JsAdd(Num(0), ExtractedAt(1))

C18_Witness ==
  /\ Returned("max") /\ IsArray(value) /\ Len(value.items) = 2
  /\ getter = Str("a")
  /\ value.items[1].t = "object" /\ value.items[1].a = NaN
  /\ MaxPipe_get(getter, value.items[1]) = NaN
  /\ MaxPipe_get(getter, value.items[2]) = Num(1)
  /\ result = value.items[2]

\* a selector that is neither absent, nor a property name, nor a function
IsOtherGetter(g) == g.t \notin {"undefined", "string", "function"}

\* C19 as stated: an aggregate called with a selector of another type than
\* absent, property name or function throws.
C19_OtherGetterThrows ==
  pc = "return" /\ pipe \in AggregatePipes /\ IsOtherGetter(getter) =>
    result = TypeError

\* C19 as amended: such a selector throws nothing; it is used as a property
\* name no element has, every extracted value is undefined, and so the sum
\* and the mean of a non-empty array are NaN and its max and min are its last
\* element; empty and invalid inputs give what they give with any selector.
C19_OtherGetterIsPropertyName ==
  pc = "return" /\ pipe \in AggregatePipes /\ IsOtherGetter(getter) =>
    /\ result # TypeError
    /\ IsArray(value) => \A i \in Indices(value) : ExtractedAt(i) = Undefined
    /\ IsNonEmptyArray(value) =>
         result = IF pipe \in {"sum", "mean"} THEN NaN
                  ELSE value.items[Len(value.items)]
    /\ IsEmptyArray(value) => result = IF pipe = "sum" THEN Num(0) ELSE Null
    /\ ~IsArray(value) => result = Null

C19_Witness ==
  /\ Returned("sum") /\ getter = Null
  /\ value = Arr(<<Num(1), Num(1)>>)
  /\ result = NaN

C22_ExtractorsAgree ==
  pc = "return" /\ pipe \in AggregatePipes /\ IsArray(value) =>
    \A i \in Indices(value) :
      /\ SumPipe_get(getter, value.items[i]) = MeanPipe_get(getter, value.items[i])
      /\ MeanPipe_get(getter, value.items[i]) = MaxPipe_get(getter, value.items[i])
      /\ MaxPipe_get(getter, value.items[i]) = MinPipe_get(getter, value.items[i])

C22_Witness ==
  /\ Returned("min") /\ IsArray(value) /\ Len(value.items) = 2
  /\ getter = Fn("a_plus_b")
  /\ MinPipe_get(getter, value.items[1]) = Num(2)
  /\ SumPipe_get(getter, value.items[1]) = Num(2)
  /\ MinPipe_get(getter, value.items[2]) = Num(1)
  /\ result = value.items[2]

OccurrenceAt(s, re, i) ==
  /\ OccursAt(s, re.open, i)
  /\ \E k \in 1..Len(s) : OccursAt(s, re.close, i + Len(re.open) + k)

\* r, from position j on, is the pieces c[i..] with every piece that is a
\* placeholder replaced by some text and every other piece as it is
RECURSIVE KeepsPlain(_, _, _, _, _)
KeepsPlain(c, i, r, j, phs) ==
  IF i > Len(c) THEN j = Len(r) + 1
  ELSE IF c[i] \in phs
    THEN \E n \in 0..(Len(r) + 1 - j) : KeepsPlain(c, i + 1, r, j + n, phs)
  ELSE OccursAt(r, c[i], j) /\ KeepsPlain(c, i + 1, r, j + Len(c[i]), phs)

\* C23: a template in which the pattern in use has no occurrence comes back
\* unchanged, whatever the variables; in a template made of plain text and
\* placeholders the plain text comes back unchanged and in order, around
\* whatever the placeholders have become.
C23_OnlyPlaceholdersChange ==
  Returned("template") /\ template \in TemplateStrings =>
    /\ (\A i \in 1..Len(template.syms) : ~OccurrenceAt(template.syms, PatternInUse, i))
         => result = template
    /\ ~isNil(variables) =>
         LET phs == {Placeholder(PatternInUse, n) : n \in TemplateNames}
         IN \A c \in Readings(PlainChunks(PatternInUse) \cup phs) :
              result.t = "text" /\ KeepsPlain(c, 1, result.syms, 1, phs)

C23_Witness ==
  /\ Returned("template")
  /\ template = Text(<<"}", "{", "{", "name", "}", "}", "Hello ">>)
  /\ HasOwn("name") /\ variables.m["name"] = Str("")
  /\ regex = Undefined
  /\ result = Text(<<"}", "Hello ">>)

(* -------------------- TemplatePipe lookup properties ------------------- *)
\* the symbols of the values the caller put in the variables object
SuppliedSymbols ==
  UNION {{StringOf(variables.m[n])[i] : i \in 1..Len(StringOf(variables.m[n]))} :
           n \in {k \in DOMAIN variables.m : ~isNil(variables.m[k])}}

\* C29 as stated: names are resolved against the entries of the variables
\* object only, so every piece of text in the output comes from the template
\* or from a value the caller supplied, and a template whose placeholders
\* name no entry comes back unchanged.
C29_OnlyOwnEntriesResolved ==
  Returned("template") /\ template \in TemplateStrings /\ ~isNil(variables) =>
    /\ result.t = "text"
    /\ \A i \in 1..Len(result.syms) :
         \/ result.syms[i] \in SuppliedSymbols
         \/ \E j \in 1..Len(template.syms) : template.syms[j] = result.syms[i]
    /\ LET phs == {Placeholder(PatternInUse, n) : n \in TemplateNames \ DOMAIN variables.m}
       IN Readings(PlainChunks(PatternInUse) \cup phs) # {} => result = template

\* the i-th piece is a match the pattern replaces, for several placeholders
IsReplacedAmong(c, i, phs) ==
  /\ c[i] \in phs
  /\ PatternInUse.global \/ \A j \in 1..(i - 1) : c[j] \notin phs

\* C30: with variables { name: '{{unknown}}', unknown: 'x' } every replaced
\* placeholder of name becomes the text {{unknown}}, which is not replaced in
\* its turn although unknown is an entry; {{unknown}} in the template itself
\* becomes x.
C30_SinglePass ==
  Returned("template") /\ template \in TemplateStrings /\ variables = NestedVariables =>
    LET phName == Placeholder(PatternInUse, "name")
        phUnknown == Placeholder(PatternInUse, "unknown")
    IN \A c \in Readings(PlainChunks(PatternInUse) \cup {phName, phUnknown}) :
         result = Text(Concat([i \in 1..Len(c) |->
                    IF ~IsReplacedAmong(c, i, {phName, phUnknown}) THEN c[i]
                    ELSE IF c[i] = phName THEN <<"{", "{", "unknown", "}", "}">>
                    ELSE <<"x">>]))

C30_Witness ==
  /\ Returned("template")
  /\ template = Text(<<"{", "{", "name", "}", "}", "{", "{", "unknown", "}", "}">>)
  /\ variables = NestedVariables
  /\ regex = Undefined
  /\ result = Text(<<"{", "{", "unknown", "}", "}", "x">>)

(* -------------------------- RoundPipe properties ----------------------- *)
\* C24: RoundPipe.transform returns null exactly for null, undefined, NaN
\* and the values that are not of type number, whatever the precision; for
\* every other number, Infinity and -Infinity included, it returns
\* round(value, precision).
C24_RoundNullIffNotANumber ==
  Returned("round") =>
    /\ result = Null <=> (value = NaN \/ value \in NonNumbers)
    /\ result # Null => result = round(value, precision)
    /\ value.t = "infinity" => result = value

C24_Witness ==
  Returned("round") /\ value = NaN /\ precision = Num(2) /\ result = Null

\* the precision round works with: 0 when it is omitted or negative
PrecisionInUse ==
  IF precision.t = "undefined" \/ precision.n < 0 THEN 0 ELSE precision.n

\* the literals a/n that a double holds exactly
ExactDenominators == {1, 2, 4, 8, 16}

\* a/n lies exactly halfway between two neighbouring multiples of 10^-p
IsTie(a, n, p) ==
  /\ (2 * a * Pow10(p)) % n = 0
  /\ ((2 * a * Pow10(p)) \div n) % 2 = 1

\* the lower of the two candidates around a/n, in units of 10^-p
LowerCandidate(a, n, p) == (a * Pow10(p)) \div n

\* the value is some a/n that is a tie at the precision in use
TiesOfValue ==
  {an \in UNION {{<<a, n>> : a \in (0 - MaxWhole * n)..(MaxWhole * n)} : n \in ExactDenominators} :
     IsTie(an[1], an[2], PrecisionInUse) /\ value = FDiv(an[1], an[2])}

C27_NegativePrecisionIsZero ==
  Returned("round") /\ isNumber(value) /\ precision.t = "number" /\ precision.n < 0 =>
    result = round(value, Num(0))

C27_Witness ==
  /\ Returned("round")
  /\ value = FDiv(27, 10)
  /\ precision = Num(-1)
  /\ result = FDiv(3, 1)

(* ------------------------- groupBy partition --------------------------- *)
\* the sizes of the groups named in S, added up
RECURSIVE GroupSizes(_, _)
GroupSizes(m, S) ==
  IF S = {} THEN 0
  ELSE LET k == CHOOSE x \in S : TRUE
       IN Len(m[k]) + GroupSizes(m, S \ {k})

\* C28 as stated: for an array and a property name GroupByPipe.transform
\* returns a mapping, it does not throw; every input element is in exactly
\* one group, the one named by the string form of its key; no group is
\* empty and the group sizes add up to the input length.  Keys that name a
\* property every object inherits ('constructor') are no exception.
C28_GroupsPartitionInput ==
  Returned("groupBy") /\ IsArray(value) /\ getter.t = "string" =>
    /\ result.t = "map"
    /\ \A i \in Indices(value) :
         /\ KeyStringAt(i) \in DOMAIN result.m
         /\ \A k \in DOMAIN result.m :
              Cardinality({p \in 1..Len(result.m[k]) : result.m[k][p] = value.items[i]})
                = IF k = KeyStringAt(i) THEN 1 ELSE 0
    /\ \A k \in DOMAIN result.m : Len(result.m[k]) > 0
    /\ GroupSizes(result.m, DOMAIN result.m) = Len(value.items)

====
